---- MODULE Spec2Model ----
(***************************************************************************)
(* A model of bugcacher/godenticon, package avatar: the option builder     *)
(* (New, With...), Avatar.Generate, the two pattern-fill algorithms, the   *)
(* colour derivation and the file/buffer sink.                             *)
(*                                                                         *)
(* Library code is modelled by what it does:                               *)
(*  - crypto/sha256 is a fixed byte-mixing function Sum256 (deterministic, *)
(*    32 bytes, different values give different digests);                  *)
(*  - math/rand's process-wide generator is a full-period linear           *)
(*    congruential generator on 64 states: Seed resets the state from the  *)
(*    seed, Float64 advances it and the draw is < 0.5 iff the new state is *)
(*    in the lower half;                                                   *)
(*  - image.RGBA is a width, a height and a pixel function; Set outside    *)
(*    the rectangle is a no-op, At outside it is the zero colour;          *)
(*  - png.Encode rejects an image with a zero side and otherwise writes    *)
(*    the width, the height and the pixel bytes in row-major order;        *)
(*  - the filesystem is a set of directories, a set of regular files and   *)
(*    the content of avatar.png per directory.                             *)
(***************************************************************************)
EXTENDS Integers, Sequences, FiniteSets, TLC

VARIABLES
    av,       \* the Avatar object built by New (or NoAvatar)
    fs,       \* the filesystem: [dirs, ro, regs, png]
    rng,      \* state of the process-wide math/rand generator
    status,   \* "running", "fatal" (log.Fatal) or "panic" (nil func call)
    ret,      \* what the last call returned to its caller
    ref,      \* a Generate result the caller kept: [key, image, bytes]
    fin,      \* input of a stand-alone pattern fill
    fout,     \* its outcome
    digest,   \* a 32-byte digest handed to the colour derivation
    rgba,     \* the colour derived from it
    procs     \* two goroutines running Generate on their own Avatars

vars == <<av, fs, rng, status, ret, ref, fin, fout, digest, rgba, procs>>

----------------------------------------------------------------------------
(* Bounds of the model.                                                    *)

MaxFillSize == 5      \* pattern sizes 0..MaxFillSize in the stand-alone fill
MaxDetSize == 2       \* pattern sizes 1..MaxDetSize in the sequential history
MaxApiDim == 2        \* dimensions 0..MaxApiDim in the API model
MaxConcSize == 2      \* pattern sizes 1..MaxConcSize in the concurrent model
MaxDigestStep == 7    \* digest family: steps 0..MaxDigestStep

----------------------------------------------------------------------------
(* constants.go                                                            *)

ALGORITHM_1 == 0
ALGORITHM_2 == 1
OUTPUT_FILE == 0
OUTPUT_BUFFER == 1
defaultFileName == "avatar.png"

----------------------------------------------------------------------------
(* Colours (image/color).                                                  *)

RGBA(r, g, b, a) == [model |-> "RGBA", v |-> <<r, g, b, a>>]
Gray16(y) == [model |-> "Gray16", v |-> <<y>>]
Black == Gray16(0)
White == Gray16(65535)
ZeroPix == <<0, 0, 0, 0>>

\* color.RGBAModel.Convert: an RGBA is kept; a Gray16 y is (y, y, y, 0xffff)
\* in 16 bits, of which the high byte is stored.
ToRGBA(c) ==
    IF c.model = "RGBA" THEN c.v
    ELSE <<c.v[1] \div 256, c.v[1] \div 256, c.v[1] \div 256, 65535 \div 256>>

getBackgroundColor(darkMode) == IF darkMode THEN Black ELSE White

----------------------------------------------------------------------------
(* image.RGBA                                                              *)

NewRGBA(w, h) ==
    [w |-> w, h |-> h,
     pix |-> [x \in 0..(w - 1) |-> [y \in 0..(h - 1) |-> ZeroPix]]]

InRect(img, x, y) == x >= 0 /\ x < img.w /\ y >= 0 /\ y < img.h

\* image.RGBA.Set(x, y, c): x is the column, y the row.
ImgSet(img, x, y, c) ==
    IF InRect(img, x, y) THEN [img EXCEPT !.pix[x][y] = ToRGBA(c)] ELSE img

\* image.RGBA.At(x, y): the zero colour outside the rectangle.
ImgAt(img, x, y) ==
    IF InRect(img, x, y) THEN [model |-> "RGBA", v |-> img.pix[x][y]]
    ELSE [model |-> "RGBA", v |-> ZeroPix]

----------------------------------------------------------------------------
(* math/rand, process-wide generator.                                      *)

\* A uint32 is kept as its two 16-bit halves <<high, low>>.
\* Its value modulo 2^31 - 1 (2^31 is 1 modulo 2^31 - 1).
Mod31(u) ==
    LET hi == u[1] \div 32768
        low == (u[1] % 32768) * 65536 + u[2]
    IN IF low = 2147483647 THEN hi ELSE (low + hi) % 2147483647

\* rand.Seed(int64(seed)): the seed is reduced modulo 2^31 - 1 and the
\* generator state is rebuilt from it alone.
rngSeed(seed) == ((Mod31(seed) % 64) * 5 + 3) % 64

\* One rand.Float64() call: the next state.
rngNext(s) == (s * 37 + 11) % 64

\* Whether the draw that led to state s is < 0.5.
rngLow(s) == s < 32

----------------------------------------------------------------------------
(* algorithms.go: the pattern fills.  A fill state st is                   *)
(*   img   the image being filled                                          *)
(*   rng   the generator state                                             *)
(*   draws the number of rand.Float64 calls made so far                    *)
(*   oob   how many of them were made for a coordinate outside the image   *)
(*   log   one entry per loop iteration: the Set target (col, row), and    *)
(*         for a mirror the At source (scol, srow)                         *)

FillStart(img, s) == [img |-> img, rng |-> s, draws |-> 0, oob |-> 0, log |-> <<>>]

\* The index a mirrored cell is copied from: size - i - 1.
MirrorSrc(size, i) == size - i - 1

\* if rand.Float64() < 0.5 { Set(col, row, colorToFill) } else { Set(col, row, bg) }
DrawCell(st, col, row, colorToFill, darkMode) ==
    LET s == rngNext(st.rng)
        c == IF rngLow(s) THEN colorToFill ELSE getBackgroundColor(darkMode)
    IN [img |-> ImgSet(st.img, col, row, c),
        rng |-> s,
        draws |-> st.draws + 1,
        oob |-> st.oob + (IF InRect(st.img, col, row) THEN 0 ELSE 1),
        log |-> Append(st.log, [op |-> "draw", col |-> col, row |-> row,
                                scol |-> col, srow |-> row])]

\* Set(col, row, At(scol, srow))
MirrorCell(st, col, row, scol, srow) ==
    [st EXCEPT !.img = ImgSet(st.img, col, row, ImgAt(st.img, scol, srow)),
               !.log = Append(st.log, [op |-> "mirror", col |-> col, row |-> row,
                                       scol |-> scol, srow |-> srow])]

\* The body of algorithm_one's inner loop for loop variables x, y:
\* the pixel calls are Set(y, x, ...) and At(size-y-1, x).
algorithm_one_cell_mirror_same(st, size, x, y, colorToFill, darkMode) ==
    IF y <= size \div 2
    THEN DrawCell(st, y, x, colorToFill, darkMode)
    ELSE MirrorCell(st, y, x, size - y, x)

algorithm_one_cell(st, size, x, y, colorToFill, darkMode) ==
    IF y <= size \div 2
    THEN DrawCell(st, y, x, colorToFill, darkMode)
    ELSE MirrorCell(st, y, x, MirrorSrc(size, y), x)

\* The body of algorithm_two's inner loop: Set(x, y, ...) and At(size-x-1, y).
algorithm_two_cell_mirror_same(st, size, x, y, colorToFill, darkMode) ==
    IF x <= size \div 2
    THEN DrawCell(st, x, y, colorToFill, darkMode)
    ELSE MirrorCell(st, x, y, size - x, y)

algorithm_two_cell(st, size, x, y, colorToFill, darkMode) ==
    IF x <= size \div 2
    THEN DrawCell(st, x, y, colorToFill, darkMode)
    ELSE MirrorCell(st, x, y, MirrorSrc(size, x), y)

\* Number of iterations of each double loop over the image's bounds:
\* algorithm_one runs y = 0 .. Max.Y-1, algorithm_two runs y = Max.Y .. 0.
algorithm_one_iters(img) == img.h * img.w
algorithm_two_iters(img) == (img.h + 1) * img.w

\* Loop variables of iteration k (0-based).
algorithm_one_y(img, k) == k \div img.w
algorithm_two_y(img, k) == img.h - (k \div img.w)
loop_x(img, k) == k % img.w

\* Iteration k of the fill selected by algo.
FillCell(algo, st, size, k, colorToFill, darkMode) ==
    IF algo = ALGORITHM_1
    THEN algorithm_one_cell(st, size, loop_x(st.img, k), algorithm_one_y(st.img, k),
                            colorToFill, darkMode)
    ELSE algorithm_two_cell(st, size, loop_x(st.img, k), algorithm_two_y(st.img, k),
                            colorToFill, darkMode)

FillIters(algo, img) ==
    IF algo = ALGORITHM_1 THEN algorithm_one_iters(img) ELSE algorithm_two_iters(img)

RECURSIVE FillFrom(_, _, _, _, _, _)
FillFrom(algo, st, size, k, colorToFill, darkMode) ==
    IF k >= FillIters(algo, st.img) THEN st
    ELSE FillFrom(algo, FillCell(algo, st, size, k, colorToFill, darkMode),
                  size, k + 1, colorToFill, darkMode)

algorithm_one(img, size, colorToFill, darkMode, s) ==
    FillFrom(ALGORITHM_1, FillStart(img, s), size, 0, colorToFill, darkMode)

algorithm_two(img, size, colorToFill, darkMode, s) ==
    FillFrom(ALGORITHM_2, FillStart(img, s), size, 0, colorToFill, darkMode)

\* algoExecutorMap
Registry == {ALGORITHM_1, ALGORITHM_2}

----------------------------------------------------------------------------
(* Seed and colour derivation (Generate, first half).                      *)

\* sha256.Sum256([]byte(value)): 32 bytes, a fixed function of the value.
Sum256(value) ==
    [i \in 1..32 |-> (value * 167 + i * i * 31 + value * i * 13 + 89) % 256]

\* binary.BigEndian.Uint32(hash[:])
BigEndianUint32(hash) == <<hash[1] * 256 + hash[2], hash[3] * 256 + hash[4]>>

\* byteSum with an accumulator that saturates at 255 instead of wrapping.
RECURSIVE byteSumSaturating(_)
byteSumSaturating(data) ==
    IF data = <<>> THEN 0
    ELSE LET t == byteSumSaturating(SubSeq(data, 1, Len(data) - 1)) + data[Len(data)]
         IN IF t > 255 THEN 255 ELSE t

\* byteSum: var sum uint8; for _, b := range data { sum += b }
RECURSIVE byteSum(_)
byteSum(data) ==
    IF data = <<>> THEN 0
    ELSE (byteSum(SubSeq(data, 1, Len(data) - 1)) + data[Len(data)]) % 256

\* hash[lo:hi] in Go's 0-based half-open slicing.
Slice(hash, lo, hi) == SubSeq(hash, lo + 1, hi)

\* uint8(uint64(byteSum(hash[lo:hi])) % 256): the widening keeps the value.
Channel(hash, lo, hi) == (byteSum(Slice(hash, lo, hi)) % 256) % 256

\* The slices of the hash summed for r, g, b and a: hash[0:8], hash[8:16],
\* hash[16:24], hash[24:32].
Windows == <<<<0, 8>>, <<8, 16>>, <<16, 24>>, <<24, 32>>>>

\* avatarColor := color.RGBA{r, g, b, a}
avatarColor(hash) ==
    RGBA(Channel(hash, Windows[1][1], Windows[1][2]),
         Channel(hash, Windows[2][1], Windows[2][2]),
         Channel(hash, Windows[3][1], Windows[3][2]),
         Channel(hash, Windows[4][1], Windows[4][2]))

----------------------------------------------------------------------------
(* scaleImage and png.Encode.                                              *)

\* One channel of draw.Over onto destination byte d: source byte p with
\* source alpha byte a, in 16-bit arithmetic.
OverChannel(d, p, a) ==
    (((d * ((65535 - a * 257) * 257)) \div 65535 + p * 257) \div 256) % 256

OverPix(d, p) ==
    <<OverChannel(d[1], p[1], p[4]), OverChannel(d[2], p[2], p[4]),
      OverChannel(d[3], p[3], p[4]), OverChannel(d[4], p[4], p[4])>>

\* Nearest-neighbour source index of destination index di.
NearestSrc(di, dn, sn) == ((2 * di + 1) * sn) \div (2 * dn)

\* scaleImage: a fresh dimension x dimension image; nothing is drawn when
\* the destination or the source rectangle is empty.
scaleImage(img, dimension) ==
    LET dst == NewRGBA(dimension, dimension)
    IN IF dimension = 0 \/ img.w = 0 \/ img.h = 0 THEN dst
       ELSE [dst EXCEPT !.pix =
                [x \in 0..(dimension - 1) |-> [y \in 0..(dimension - 1) |->
                    OverPix(dst.pix[x][y],
                            img.pix[NearestSrc(x, dimension, img.w)]
                                   [NearestSrc(y, dimension, img.h)])]]]

\* An encoder that accepts an image with a zero side.
pngEncodeAnySize(img) ==
    [err |-> "nil",
     bytes |-> [i \in 1..(2 + img.w * img.h * 4) |->
                   IF i = 1 THEN img.w
                   ELSE IF i = 2 THEN img.h
                   ELSE LET j == i - 3
                            p == j \div 4
                        IN img.pix[p % img.w][p \div img.w][(j % 4) + 1]]]

\* png.Encode: an image with a zero side is a FormatError; otherwise the
\* bytes are the width, the height and the pixels row by row.
pngEncode(img) ==
    IF img.w <= 0 \/ img.h <= 0
    THEN [err |-> "png.FormatError", bytes |-> <<>>]
    ELSE [err |-> "nil",
          bytes |-> [i \in 1..(2 + img.w * img.h * 4) |->
                        IF i = 1 THEN img.w
                        ELSE IF i = 2 THEN img.h
                        ELSE LET j == i - 3
                                 p == j \div 4
                             IN img.pix[p % img.w][p \div img.w][(j % 4) + 1]]]

----------------------------------------------------------------------------
(* The filesystem.  A path is the sequence of its components; "" is <<>>.  *)
(*   dirs  existing directories        ro  directories that deny writes    *)
(*   regs  existing regular files      png content of avatar.png by dir    *)

NoFile == <<"absent">>
OutDirs == {<<>>, <<"icons">>}
Prefixes(path) == {SubSeq(path, 1, n) : n \in 0..Len(path)}

\* os.Stat(path): "nil", "ENOENT" or "ENOTDIR".
Stat(f, path) ==
    IF \E q \in Prefixes(path) : q # path /\ q \in f.regs THEN "ENOTDIR"
    ELSE IF path \in f.dirs \/ path \in f.regs THEN "nil"
    ELSE "ENOENT"

\* os.MkdirAll(path, 0755): creates the missing directories from the root
\* down; fails on a regular file in the way or a parent that denies writes.
RECURSIVE MkdirAllFrom(_, _, _)
MkdirAllFrom(f, path, n) ==
    IF n > Len(path) THEN [err |-> "nil", fs |-> f]
    ELSE LET q == SubSeq(path, 1, n)
             parent == SubSeq(path, 1, n - 1)
         IN IF q \in f.dirs THEN MkdirAllFrom(f, path, n + 1)
            ELSE IF q \in f.regs THEN [err |-> "ENOTDIR", fs |-> f]
            ELSE IF parent \in f.ro THEN [err |-> "EACCES", fs |-> f]
            ELSE MkdirAllFrom([f EXCEPT !.dirs = @ \cup {q}], path, n + 1)

MkdirAll(f, path) == MkdirAllFrom(f, path, 1)

\* ensurePath: create the directory when Stat says it does not exist; the
\* error returned on a failed creation is Stat's.
ensurePath(f, path) ==
    IF Stat(f, path) = "ENOENT"
    THEN LET m == MkdirAll(f, path)
         IN IF m.err # "nil" THEN [err |-> "ENOENT", fs |-> f]
            ELSE [err |-> "nil", fs |-> m.fs]
    ELSE [err |-> "nil", fs |-> f]

\* filepath.Join(dir, name): empty elements are dropped.
Join(dir, name) == dir \o <<name>>

\* saveToFile: os.Create(Join(path, defaultFileName)) then png.Encode into it.
saveToFile(f, path, bytes) ==
    IF path \in f.dirs /\ path \notin f.ro
    THEN [err |-> "nil", path |-> Join(path, defaultFileName),
          fs |-> [f EXCEPT !.png[path] = bytes]]
    ELSE [err |-> "os.PathError", path |-> <<>>, fs |-> f]

----------------------------------------------------------------------------
(* The Avatar object, New and its options.                                 *)
(* A nil pointer is the empty set, a non-nil one the singleton of what it  *)
(* points to; NoAvatar and NoImage stand for "no object yet" / image nil.  *)

NoAvatar == [nil |-> TRUE]
NoImage == [w |-> 0 - 1, h |-> 0 - 1, pix |-> <<>>]
NoReturn == [op |-> "none", result |-> {}, err |-> "nil"]
NoRef == [nil |-> TRUE]

\* An option that is absent ({}) leaves the default.
OptOr(opt, default) == IF opt = {} THEN default ELSE CHOOSE x \in opt : TRUE

\* WithOutputDir(path): ensurePath runs when the option is built, whatever
\* the other options are; a failure is log.Fatal.
WithOutputDir(f, dirOpt) ==
    IF dirOpt = {} THEN [err |-> "nil", fs |-> f]
    ELSE ensurePath(f, CHOOSE d \in dirOpt : TRUE)

\* New(value, opts...): the defaults, then each option applied.  The
\* pattern size and the dimension are always given (their defaults, 5 and
\* 100, are ordinary values of these options).
New(value, patternSize, dimension, algoOpt, outputOpt, darkMode, dirOpt) ==
    /\ status = "running"
    /\ LET e == WithOutputDir(fs, dirOpt)
       IN /\ fs' = e.fs
          /\ status' = IF e.err # "nil" THEN "fatal" ELSE "running"
          /\ av' = IF e.err # "nil" THEN av
                   ELSE [value |-> value,
                         path |-> OptOr(dirOpt, <<>>),
                         patternSize |-> patternSize,
                         algo |-> OptOr(algoOpt, ALGORITHM_1),
                         darkMode |-> darkMode,
                         outputType |-> OptOr(outputOpt, OUTPUT_FILE),
                         dimension |-> dimension,
                         image |-> NoImage]
          /\ ret' = IF e.err # "nil" THEN NoReturn
                    ELSE [op |-> "New", result |-> {}, err |-> "nil"]
    /\ UNCHANGED <<rng, ref, fin, fout, digest, rgba, procs>>

----------------------------------------------------------------------------
(* Avatar.Generate                                                         *)

\* Generate without the rand.Seed call: the generator goes on from where
\* the previous call left it.
SeedStepMissing(s, value) == s

\* hash := sha256.Sum256(value); rand.Seed(int64(BigEndian.Uint32(hash)))
SeedStep(s, value) == rngSeed(BigEndianUint32(Sum256(value)))

\* applyAlgorithm for an algorithm of the registry.
applyAlgorithm(a, img, colorToFill, s) ==
    IF a.algo = ALGORITHM_1
    THEN algorithm_one(img, a.patternSize, colorToFill, a.darkMode, s)
    ELSE algorithm_two(img, a.patternSize, colorToFill, a.darkMode, s)

\* The switch with the buffer as the default case.
RouteDefaultBuffer(a, f, bytes) ==
    IF a.outputType = OUTPUT_FILE
    THEN LET sv == saveToFile(f, a.path, bytes)
         IN IF sv.err # "nil"
            THEN [fs |-> sv.fs, result |-> {}, err |-> sv.err]
            ELSE [fs |-> sv.fs, err |-> "nil",
                  result |-> {[FilePath |-> sv.path, Buffer |-> {}]}]
    ELSE [fs |-> f, err |-> "nil",
          result |-> {[FilePath |-> <<>>, Buffer |-> {bytes}]}]

\* The switch on av.outputType, after a successful png.Encode into buf.
Route(a, f, bytes) ==
    IF a.outputType = OUTPUT_FILE
    THEN LET sv == saveToFile(f, a.path, bytes)
         IN IF sv.err # "nil"
            THEN [fs |-> sv.fs, result |-> {}, err |-> sv.err]
            ELSE [fs |-> sv.fs, err |-> "nil",
                  result |-> {[FilePath |-> sv.path, Buffer |-> {}]}]
    ELSE IF a.outputType = OUTPUT_BUFFER
    THEN [fs |-> f, err |-> "nil",
          result |-> {[FilePath |-> <<>>, Buffer |-> {bytes}]}]
    ELSE [fs |-> f, result |-> {}, err |-> "ErrUnknownOutputType"]

\* What identifies the image of a call.
Key(a) == <<a.value, a.algo, a.patternSize, a.darkMode, a.dimension>>

\* The whole of Generate on Avatar a, filesystem f, generator state s.
GenerateOutcome(a, f, s) ==
    LET s1 == SeedStep(s, a.value)
        color == avatarColor(Sum256(a.value))
        img0 == NewRGBA(a.patternSize, a.patternSize)
    IN IF a.algo \notin Registry
       THEN \* algoExecutorMap[av.algo] is nil: calling it panics
            [av |-> [a EXCEPT !.image = img0], fs |-> f, rng |-> s1,
             status |-> "panic", ret |-> NoReturn]
       ELSE LET st == applyAlgorithm(a, img0, color, s1)
                scaled == scaleImage(st.img, a.dimension)
                enc == pngEncode(scaled)
                a1 == [a EXCEPT !.image = scaled]
            IN IF enc.err # "nil"
               THEN [av |-> a1, fs |-> f, rng |-> st.rng, status |-> "running",
                     ret |-> [op |-> "Generate", result |-> {}, err |-> enc.err]]
               ELSE LET r == Route(a, f, enc.bytes)
                    IN [av |-> a1, fs |-> r.fs, rng |-> st.rng, status |-> "running",
                        ret |-> [op |-> "Generate", result |-> r.result, err |-> r.err]]

Generate ==
    /\ status = "running"
    /\ av # NoAvatar
    /\ LET o == GenerateOutcome(av, fs, rng)
       IN /\ av' = o.av
          /\ fs' = o.fs
          /\ rng' = o.rng
          /\ status' = o.status
          /\ ret' = o.ret
    /\ ref' = IF ref # NoRef /\ Key(av) # ref.key
              THEN [ref EXCEPT !.between = TRUE] ELSE ref
    /\ UNCHANGED <<fin, fout, digest, rgba, procs>>

\* The caller keeps the result of the Generate call that just returned;
\* "between" records that a call with another key has run since.
Observe ==
    /\ status = "running"
    /\ ref = NoRef
    /\ ret.op = "Generate"
    /\ ret.result # {}
    /\ ref' = [key |-> Key(av), image |-> av.image, between |-> FALSE,
               buffer |-> (CHOOSE r \in ret.result : TRUE).Buffer]
    /\ UNCHANGED <<av, fs, rng, status, ret, fin, fout, digest, rgba, procs>>

----------------------------------------------------------------------------
(* Initial states.                                                         *)

\* The process starts in a directory that holds a regular file "afile" and
\* a directory "ro" that denies writes; "icons" may or may not exist.
InitFs(withIcons) ==
    [dirs |-> {<<>>, <<"ro">>} \cup (IF withIcons THEN {<<"icons">>} ELSE {}),
     ro |-> {<<"ro">>},
     regs |-> {<<"afile">>},
     png |-> [d \in OutDirs |-> NoFile]]

\* The generator before any Seed call: some state.
InitRng == {1, 40}

NoFill == [nil |-> TRUE]
NoColor == <<>>
NoDigest == <<>>
NoProcs == <<>>

ApiIdle ==
    /\ av = NoAvatar /\ fs = InitFs(FALSE) /\ rng = 1 /\ status = "running"
    /\ ret = NoReturn /\ ref = NoRef
FillIdle == fin = NoFill /\ fout = NoFill
SumIdle == digest = NoDigest /\ rgba = NoColor
ConcIdle == procs = NoProcs

----------------------------------------------------------------------------
(* Spec: the sequential API with the filesystem.                           *)

ApiValues == {0}
ApiSizes == {2}
ApiAlgoOpts == {{}, {ALGORITHM_2}, {2}}
ApiOutputOpts == {{}, {OUTPUT_BUFFER}, {2}}
ApiDark == {FALSE}
ApiDirOpts == {{}, {<<"icons">>}, {<<"afile">>}, {<<"ro", "sub">>}}

Init ==
    /\ av = NoAvatar
    /\ fs \in {InitFs(b) : b \in BOOLEAN}
    /\ rng \in InitRng
    /\ status = "running"
    /\ ret = NoReturn
    /\ ref = NoRef
    /\ FillIdle /\ SumIdle /\ ConcIdle

Next ==
    \/ \E v \in ApiValues, n \in ApiSizes, d \in 0..MaxApiDim, ao \in ApiAlgoOpts,
          oo \in ApiOutputOpts, dm \in ApiDark, po \in ApiDirOpts :
          New(v, n, d, ao, oo, dm, po)
    \/ Generate

Spec == Init /\ [][Next]_vars

----------------------------------------------------------------------------
(* SpecDet: sequential histories of Generate calls, results compared.      *)

DetValues == {0, 1}
DetDims == {1, 2}

InitDet ==
    /\ av = NoAvatar
    /\ fs = InitFs(FALSE)
    /\ rng \in InitRng
    /\ status = "running"
    /\ ret = NoReturn
    /\ ref = NoRef
    /\ FillIdle /\ SumIdle /\ ConcIdle

NextDet ==
    \/ \E v \in DetValues, n \in 1..MaxDetSize, d \in DetDims,
          ao \in {{ALGORITHM_1}, {ALGORITHM_2}}, dm \in BOOLEAN :
          New(v, n, d, ao, {OUTPUT_BUFFER}, dm, {})
    \/ Generate
    \/ Observe

SpecDet == InitDet /\ [][NextDet]_vars

----------------------------------------------------------------------------
(* Claims checked under SpecDet.                                           *)

\* C1: in any sequential history of Generate calls, a call with the same
\* value, algorithm, pattern size, darkMode and dimension as a call whose
\* result was kept produces the same image, pixel for pixel, and the same
\* PNG bytes, whatever calls ran before or between the two.
C1_Determinism ==
    (/\ ref # NoRef
     /\ ret.op = "Generate"
     /\ ret.result # {}
     /\ Key(av) = ref.key)
    => /\ av.image = ref.image
       /\ (CHOOSE r \in ret.result : TRUE).Buffer = ref.buffer

\* A call repeats the key of a kept result after a call with another key.
C1_Witness ==
    /\ ref # NoRef
    /\ ref.between
    /\ ret.op = "Generate"
    /\ ret.result # {}
    /\ Key(av) = ref.key

----------------------------------------------------------------------------
(* Claims checked under Spec.                                              *)

KnownOutput(a) == a.outputType \in {OUTPUT_FILE, OUTPUT_BUFFER}

\* (a) File success, (b) Buffer success, (c) failure.
FileSuccess(r) ==
    /\ r.err = "nil"
    /\ \E x \in r.result : r.result = {x} /\ x.FilePath # <<>> /\ x.Buffer = {}
BufferSuccess(r) ==
    /\ r.err = "nil"
    /\ \E x \in r.result : r.result = {x} /\ x.FilePath = <<>> /\ x.Buffer # {}
Failure(r) == r.result = {} /\ r.err # "nil"

C5_UnknownAlgorithmRejectedAtBuild ==
    /\ status # "panic"
    /\ av # NoAvatar => av.algo \in Registry

\* C6 as stated: with dimension 0, Generate fails with an
\* InvalidConfiguration error.
C6_DimensionZeroInvalidConfiguration ==
    (ret.op = "Generate" /\ av.dimension = 0)
    => (Failure(ret) /\ ret.err = "InvalidConfiguration")

\* C6 amended: with dimension 0, Generate returns no result and neither
\* creates nor truncates avatar.png, in File mode as in Buffer mode; when it
\* returns, it returns the PNG encoder's invalid-size error.
C6_DimensionZeroFails ==
    [][((ret'.op = "Generate" \/ status' = "panic") /\ av # NoAvatar
        /\ av.dimension = 0 /\ Generate)
       => /\ fs' = fs
          /\ ret'.result = {}
          /\ status' = "running"
             => (ret'.op = "Generate" /\ ret'.err = "png.FormatError")]_vars

\* A File-mode call with dimension 0 has returned the encoder's error.
C6_Witness ==
    /\ ret.op = "Generate"
    /\ av.dimension = 0
    /\ av.outputType = OUTPUT_FILE
    /\ ret.err = "png.FormatError"
    /\ \A d \in OutDirs : fs.png[d] = NoFile

\* C7 as stated: building an Avatar whose output type is OUTPUT_BUFFER, and
\* running Generate on it, leaves the filesystem unchanged, with or without
\* WithOutputDir.
C7_BufferModeLeavesFilesystem ==
    [][(av' # av /\ av' # NoAvatar /\ av'.outputType = OUTPUT_BUFFER)
       => fs' = fs]_vars

----------------------------------------------------------------------------
(* SpecFill: one pattern fill of a fresh size x size image, as Generate    *)
(* calls it, from any generator state.                                     *)

FillColors == {RGBA(12, 200, 7, 90), RGBA(255, 255, 255, 255)}

InitFill ==
    /\ ApiIdle /\ SumIdle /\ ConcIdle
    /\ fin \in [patternSize : 0..MaxFillSize, algo : Registry,
                darkMode : BOOLEAN, s : 0..63, color : FillColors]
    /\ fout = NoFill

\* av.image = image.NewRGBA(...); av.applyAlgorithm(avatarColor, av.darkMode)
ApplyFill ==
    /\ fout = NoFill
    /\ fout' = applyAlgorithm(fin, NewRGBA(fin.patternSize, fin.patternSize),
                              fin.color, fin.s)
    /\ UNCHANGED <<av, fs, rng, status, ret, ref, fin, digest, rgba, procs>>

NextFill == ApplyFill

SpecFill == InitFill /\ [][NextFill]_vars

Filled(algo) == fout # NoFill /\ fin.algo = algo
Cells == 0..(fin.patternSize - 1)
Half == fin.patternSize \div 2

\* The image is the same read left to right and right to left.
ColumnsMirrored(img) ==
    \A x \in Cells, y \in Cells :
        x > Half => ImgAt(img, x, y) = ImgAt(img, fin.patternSize - 1 - x, y)

\* The image is the same read top to bottom and bottom to top.
RowsMirrored(img) ==
    \A x \in Cells, y \in Cells :
        y > Half => ImgAt(img, x, y) = ImgAt(img, x, fin.patternSize - 1 - y)

\* Both the fill colour and the background occur among the mirrored cells.
MirroredCellsVary(img) ==
    \E x1 \in Cells, y1 \in Cells, x2 \in Cells, y2 \in Cells :
        /\ x1 > Half /\ x2 > Half
        /\ ImgAt(img, x1, y1) # ImgAt(img, x2, y2)

\* C2 as stated: after algorithm_one, for y > size/2 the pixel at column x,
\* row y equals the pixel at column x, row size-1-y.
C2_RowsMirroredAfterAlgorithmOne ==
    Filled(ALGORITHM_1) => RowsMirrored(fout.img)

\* C2 amended: after algorithm_one, for every row y and every column x with
\* x > size/2, the pixel at column x, row y equals the pixel at column
\* size-1-x, row y (the loop variable y is the column of Set and At).
C2_ColumnsMirroredAfterAlgorithmOne ==
    Filled(ALGORITHM_1) => ColumnsMirrored(fout.img)

\* algorithm_one has filled an image whose mirrored columns show both
\* colours and whose rows are not mirrored.
C2_Witness ==
    /\ Filled(ALGORITHM_1)
    /\ fin.patternSize >= 3
    /\ MirroredCellsVary(fout.img)
    /\ ~RowsMirrored(fout.img)

\* Log entry i copies a pixel of its own row that an earlier entry assigned
\* and that no other entry assigns.
CopiedFromFinal(log, i) ==
    /\ log[i].srow = log[i].row
    /\ \E j \in 1..(i - 1) :
          /\ log[j].col = log[i].scol /\ log[j].row = log[i].srow
          /\ \A k \in 1..Len(log) :
                (log[k].col = log[i].scol /\ log[k].row = log[i].srow) => k = j

\* C3: after algorithm_two, for every row y and column x > size/2 the pixel
\* at column x, row y equals the pixel at column size-1-x, row y, and every
\* mirrored pixel of the image was copied from a pixel of the same row that
\* already had its final value.
C3_ColumnsMirroredAfterAlgorithmTwo ==
    Filled(ALGORITHM_2)
    => /\ ColumnsMirrored(fout.img)
       /\ \A i \in 1..Len(fout.log) :
             (fout.log[i].op = "mirror"
              /\ InRect(fout.img, fout.log[i].col, fout.log[i].row))
             => CopiedFromFinal(fout.log, i)

\* algorithm_two has filled an image whose mirrored columns show both colours.
C3_Witness ==
    /\ Filled(ALGORITHM_2)
    /\ fin.patternSize >= 3
    /\ MirroredCellsVary(fout.img)
    /\ \E i \in 1..Len(fout.log) :
          fout.log[i].op = "mirror" /\ InRect(fout.img, fout.log[i].col, fout.log[i].row)

\* C9 as stated: one fill, by either algorithm, consumes exactly
\* size * (size/2 + 1) draws and none for a coordinate outside the image.
C9_DrawCount ==
    fout # NoFill
    => /\ fout.draws = fin.patternSize * (fin.patternSize \div 2 + 1)
       /\ fout.oob = 0

----------------------------------------------------------------------------
(* SpecSum: the colour derivation on a family of 32-byte digests.          *)

DigestBases == {0, 1, 31, 32, 128, 200, 255}
DigestJumps == {0, 100}

Digests ==
    {[i \in 1..32 |-> (b + (i - 1) * st + ((i - 1) \div 8) * t) % 256] :
        b \in DigestBases, st \in 0..MaxDigestStep, t \in DigestJumps}
    \cup {Sum256(v) : v \in 0..3}

InitSum ==
    /\ ApiIdle /\ FillIdle /\ ConcIdle
    /\ digest \in Digests
    /\ rgba = NoColor

\* r, g, b, a := ...; avatarColor := color.RGBA{r, g, b, a}
DeriveColor ==
    /\ rgba = NoColor
    /\ rgba' = avatarColor(digest).v
    /\ UNCHANGED <<av, fs, rng, status, ret, ref, fin, fout, digest, procs>>

NextSum == DeriveColor

SpecSum == InitSum /\ [][NextSum]_vars

\* The sum of bytes lo..hi (1-based, inclusive) as an unbounded integer.
RECURSIVE TrueSum(_, _, _)
TrueSum(d, lo, hi) == IF lo > hi THEN 0 ELSE d[lo] + TrueSum(d, lo + 1, hi)

\* C8: each of the four channels is the true integer sum of its 8-byte
\* window (bytes 0-7, 8-15, 16-23, 24-31) modulo 256, and the four windows
\* the code slices do not overlap.
C8_ChannelsAreWindowSumsMod256 ==
    rgba # NoColor
    => /\ \A c \in 1..4 :
             rgba[c] = TrueSum(digest, 8 * (c - 1) + 1, 8 * c) % 256
       /\ \A c \in 1..4, e \in 1..4 :
             c < e => Windows[c][2] <= Windows[e][1]

\* A colour was derived from a digest with a window whose true sum exceeds
\* 255 (the 8-bit accumulator wrapped) and with two different channels.
C8_Witness ==
    /\ rgba # NoColor
    /\ \E c \in 1..4 : TrueSum(digest, 8 * (c - 1) + 1, 8 * c) > 255
    /\ \E c \in 1..4, e \in 1..4 : rgba[c] # rgba[e]

----------------------------------------------------------------------------
(* SpecConc: two goroutines, each running Generate in Buffer mode on its   *)
(* own Avatar.  rand.Seed and rand.Float64 lock the process-wide           *)
(* generator, so each is one atomic step; everything else a call does is   *)
(* local to it.  A goroutine is                                            *)
(*   a    its Avatar            pc  "seed", "fill", "encode" or "done"     *)
(*   k    the next iteration of the fill loop     color  its avatarColor   *)
(*   st   its fill state (the generator is rng; the log is not kept)       *)
(*   interfered  the other goroutine called Seed or Float64 between this   *)
(*               one's Seed and its last Float64                           *)

Procs == {1, 2}
Other(p) == 3 - p
ConcValues == {0, 1}
ConcDims == {2}

ConcAvatars ==
    [value : ConcValues, path : {<<>>}, patternSize : 1..MaxConcSize,
     algo : Registry, darkMode : {FALSE}, outputType : {OUTPUT_BUFFER},
     dimension : ConcDims, image : {NoImage}]

InitConc ==
    /\ av = NoAvatar /\ fs = InitFs(FALSE) /\ status = "running"
    /\ ret = NoReturn /\ ref = NoRef
    /\ rng = 40
    /\ FillIdle /\ SumIdle
    /\ procs \in [Procs -> [a : ConcAvatars, pc : {"seed"}, k : {0},
                            st : {FillStart(NoImage, 0)}, color : {RGBA(0, 0, 0, 0)},
                            interfered : {FALSE}]]

\* The iterations from k on that make no draw are run at once: they touch
\* nothing shared.  Yields the fill state and the next iteration (a draw
\* or the end of the loop).
RECURSIVE LocalRun(_, _, _, _)
LocalRun(a, st, k, colorToFill) ==
    IF k >= FillIters(a.algo, st.img) THEN [st |-> st, k |-> k]
    ELSE LET n == FillCell(a.algo, st, a.patternSize, k, colorToFill, a.darkMode)
         IN IF n.draws > st.draws THEN [st |-> st, k |-> k]
            ELSE LocalRun(a, n, k + 1, colorToFill)

\* The other goroutine is between its Seed and its last Float64.
Interferes(q) == procs[q].pc = "fill"

\* Generate up to applyAlgorithm: the hash, rand.Seed, the colour, NewRGBA.
ProcSeed(p) ==
    /\ procs[p].pc = "seed"
    /\ rng' = SeedStep(rng, procs[p].a.value)
    /\ LET a == procs[p].a
           color == avatarColor(Sum256(a.value))
           r == LocalRun(a, FillStart(NewRGBA(a.patternSize, a.patternSize), 0), 0,
                         color)
           q == Other(p)
       IN procs' = [procs EXCEPT
                       ![p].color = color,
                       ![p].pc = IF r.k >= FillIters(a.algo, r.st.img)
                                 THEN "encode" ELSE "fill",
                       ![p].st = [r.st EXCEPT !.log = <<>>],
                       ![p].k = r.k,
                       ![q].interfered = @ \/ Interferes(q)]
    /\ UNCHANGED <<av, fs, status, ret, ref, fin, fout, digest, rgba>>

\* One iteration of the fill that calls rand.Float64, then the iterations
\* after it that only mirror.
ProcDraw(p) ==
    /\ procs[p].pc = "fill"
    /\ LET a == procs[p].a
           color == procs[p].color
           n == FillCell(a.algo, [procs[p].st EXCEPT !.rng = rng], a.patternSize,
                         procs[p].k, color, a.darkMode)
           r == LocalRun(a, n, procs[p].k + 1, color)
           q == Other(p)
       IN /\ rng' = n.rng
          /\ procs' = [procs EXCEPT
                          ![p].pc = IF r.k >= FillIters(a.algo, r.st.img)
                                    THEN "encode" ELSE "fill",
                          ![p].st = [r.st EXCEPT !.rng = 0, !.log = <<>>],
                          ![p].k = r.k,
                          ![q].interfered = @ \/ Interferes(q)]
    /\ UNCHANGED <<av, fs, status, ret, ref, fin, fout, digest, rgba>>

\* scaleImage, png.Encode and the return of the buffer.
ProcFinish(p) ==
    /\ procs[p].pc = "encode"
    /\ procs' = [procs EXCEPT
                    ![p].pc = "done",
                    ![p].a.image = scaleImage(procs[p].st.img, procs[p].a.dimension)]
    /\ UNCHANGED <<av, fs, rng, status, ret, ref, fin, fout, digest, rgba>>

NextConc ==
    \E p \in Procs : ProcSeed(p) \/ ProcDraw(p) \/ ProcFinish(p)

SpecConc == InitConc /\ [][NextConc]_vars

\* The image the same call produces when it runs alone.
SoloImage(a) == GenerateOutcome(a, InitFs(FALSE), 1).av.image

\* C10: under concurrency determinism does not hold, and only through the
\* shared generator: a finished call's image differs from the image of the
\* same call run alone only if the other call reseeded or drew between its
\* reseed and its last draw (C10_Witness is such a call).
C10_DiffersOnlyWhenInterleaved ==
    \A p \in Procs :
        (procs # NoProcs /\ procs[p].pc = "done" /\ ~procs[p].interfered)
        => procs[p].a.image = SoloImage(procs[p].a)

\* Both calls have finished and one of them produced an image that differs
\* from the one it produces alone.
C10_Witness ==
    /\ procs # NoProcs
    /\ \A p \in Procs : procs[p].pc = "done"
    /\ \E p \in Procs : procs[p].a.image # SoloImage(procs[p].a)

====
